---- MODULE Spec2Model ----
(***************************************************************************)
(* Inter-layer pipeline of nn_dataflow (core/inter_layer_pipeline.py):     *)
(* the scheduling DAG built from a Network (_calc_sched_dag), its          *)
(* depth-first topological order (_topological_order), the vertex segment  *)
(* enumerator (_gen_vseg) and the segment generator (gen_segment).         *)
(*                                                                         *)
(* Layers are named 1..n in their declared order; the network input        *)
(* (None in the code) is layer 0.  Vertex indices are 0..V-1 as in the     *)
(* code, the input vertex is -1.  A raised AssertionError is a result       *)
(* with ok = FALSE (construction) or state = "error" (a generator).        *)
(***************************************************************************)
EXTENDS Integers, Sequences, FiniteSets, TLC

\* Largest number of layers of a network of Spec.
MaxLayers == 4
\* Largest number of layers of a network of SpecSeq and SpecInterleaved.
MaxSegLayers == 3
\* Largest number of layers of a network of SpecAny.
MaxAnyLayers == 3
\* The validator accepts a multi-layer segment of at most capacity layers.
MaxCapacity == 2

\* The network input as a previous layer, and the network output as a next
\* layer (None in the code).
None == 0

dag_input_vertex == -1

VARIABLES
    network,          \* [n, conv, prevs]: the Network handed to __init__
    capacity,         \* the external validator (PipelineSegment.valid)
    spatial_first,    \* iteration order of the sets seg_cands iterated so
                      \* far in this process: vseg |-> spatial candidate first
    status,           \* "new" | "ok" | "error": __init__ not run, done, raised
    dag_vertex_set,   \* the vertices in creation order, before ordering
    dag_vertex_list,  \* [0..V-1 -> vertex], a vertex is a tuple of layers
    dag_prev_dict,    \* [0..V-1 -> set of vertex indices]
    dag_next_dict,    \* [-1..V-1 -> set of vertex indices]
    seg_vertex_done,  \* the exploration memo of the instance
    vgen,             \* Spec: the one _gen_vseg() traversal
    sgen,             \* SpecSeq, SpecInterleaved: gen_segment generators
    calls             \* SpecSeq: the memo the current call found

vars == <<network, capacity, spatial_first, status, dag_vertex_set,
          dag_vertex_list, dag_prev_dict, dag_next_dict, seg_vertex_done,
          vgen, sgen, calls>>

dagVars == <<status, dag_vertex_set, dag_vertex_list, dag_prev_dict,
             dag_next_dict>>
envVars == <<network, capacity, spatial_first>>

-----------------------------------------------------------------------------
(* Helpers *)

Range(s) == {s[i] : i \in DOMAIN s}

Max(S) == CHOOSE x \in S : \A y \in S : y <= x

Min(S) == CHOOSE x \in S : \A y \in S : x <= y

Reverse(s) == [i \in 1..Len(s) |-> s[Len(s) + 1 - i]]

RECURSIVE SetToSeq(_)
SetToSeq(S) ==
    IF S = {} THEN <<>>
    ELSE LET x == CHOOSE y \in S : TRUE IN <<x>> \o SetToSeq(S \ {x})

RECURSIVE Flatten(_)
Flatten(ss) == IF ss = <<>> THEN <<>> ELSE Head(ss) \o Flatten(Tail(ss))

IsPrefix(s, t) == Len(s) <= Len(t) /\ SubSeq(t, 1, Len(s)) = s

-----------------------------------------------------------------------------
(* The Network interface used by the pipeline *)

LayerSeq(net) == [i \in 1..net.n |-> i]

\* network.prev_layers(l)[0]: the previous layers, None for the input.
PrevLayers(net, l) == net.prevs[l]

\* network.next_layers(l): the layers fed by l in declared order, None
\* alone when there is no such layer.
NextLayers(net, l) ==
    LET IsNext(x) == l \in net.prevs[x]
        s == SelectSeq(LayerSeq(net), IsNext)
    IN IF s = <<>> THEN <<None>> ELSE s

\* network.first_layers(): the layers fed by the network input.
FirstLayers(net) ==
    LET IsFirst(x) == None \in net.prevs[x]
    IN SelectSeq(LayerSeq(net), IsFirst)

\* isinstance(layer, ConvLayer)
IsConvLayer(net, l) == net.conv[l]

-----------------------------------------------------------------------------
(* _calc_sched_dag: merging layers into vertices *)

\* Whether layer_name can be merged into vertex v.
CanMerge(net, v, layer_name) ==
    LET prev_layers == PrevLayers(net, layer_name)
        vhead == SubSeq(v, 1, Len(v) - 1)
        vtail == v[Len(v)]
    IN /\ prev_layers \cap Range(vhead) = {}
       /\ vtail \in prev_layers
       /\ Len(NextLayers(net, vtail)) = 1

\* MergeIndex with a slip: the vertices are checked in creation order.
MergeIndexOldest(net, vs, layer_name) ==
    Min({idx \in 1..Len(vs) : CanMerge(net, vs[idx], layer_name)})

\* The vertex, among those of vs that can take layer_name, to merge into:
\* the vertices are checked in the reversed order.
MergeIndex(net, vs, layer_name) ==
    Max({idx \in 1..Len(vs) : CanMerge(net, vs[idx], layer_name)})

\* One iteration of the loop over the layers.
AddLayer(net, vs, layer_name) ==
    IF IsConvLayer(net, layer_name)
    THEN Append(vs, <<layer_name>>)
    ELSE IF \E idx \in 1..Len(vs) : CanMerge(net, vs[idx], layer_name)
         THEN [vs EXCEPT ![MergeIndex(net, vs, layer_name)] =
                             Append(@, layer_name)]
         ELSE Append(vs, <<layer_name>>)

RECURSIVE VertexSetUpTo(_, _)
VertexSetUpTo(net, k) ==
    IF k = 0 THEN <<>> ELSE AddLayer(net, VertexSetUpTo(net, k - 1), k)

\* dag_vertex_set at the end of the loop over the layers.
CalcVertexSet(net) == VertexSetUpTo(net, net.n)

-----------------------------------------------------------------------------
(* _topological_order *)

RECURSIVE NextLayerList(_, _, _)
\* next_layers of _dfs: cand is the next layers of the vertex's layers, in
\* order; None, the vertex's own layers and repetitions are left out.
NextLayerList(cand, vertex, acc) ==
    IF cand = <<>> THEN acc
    ELSE LET nl == Head(cand)
         IN NextLayerList(Tail(cand), vertex,
                IF nl # None /\ nl \notin Range(vertex) /\ nl \notin Range(acc)
                THEN Append(acc, nl) ELSE acc)

\* The vertices of unseen holding layer l, one list entry for each.
VerticesHolding(l, unseen) == SetToSeq({nv \in unseen : l \in Range(nv)})

\* next_vertices of _dfs, computed before any of them is visited.
NextVertices(net, vertex, unseen) ==
    LET cand == Flatten([i \in 1..Len(vertex) |-> NextLayers(net, vertex[i])])
        next_layers == NextLayerList(cand, vertex, <<>>)
        rev == Reverse(next_layers)
    IN Flatten([i \in 1..Len(rev) |-> VerticesHolding(rev[i], unseen)])

\* Whether _dfs may enter the vertex (the assertion at its top).
DfsEntryOk(vertex, st) ==
    vertex \notin st.seen /\ vertex \notin Range(st.visited)

RECURSIVE Dfs(_, _, _)
RECURSIVE DfsAll(_, _, _)
Dfs(net, vertex, st) ==
    IF ~DfsEntryOk(vertex, st) THEN [st EXCEPT !.ok = FALSE]
    ELSE LET st1 == [st EXCEPT !.unseen = @ \ {vertex},
                               !.seen = @ \cup {vertex}]
             st2 == DfsAll(net, NextVertices(net, vertex, st1.unseen), st1)
         IN IF ~st2.ok THEN st2
            ELSE [st2 EXCEPT !.visited = Append(@, vertex),
                             !.seen = @ \ {vertex}]

DfsAll(net, vs, st) ==
    IF vs = <<>> \/ ~st.ok THEN st
    ELSE DfsAll(net, Tail(vs), Dfs(net, Head(vs), st))

\* [ok, order]: ok = FALSE when an assertion fails.
TopologicalOrder(net, vertex_set) ==
    LET unseen == Range(vertex_set)
        rev == Reverse(FirstLayers(net))
        start_vertices ==
            Flatten([i \in 1..Len(rev) |-> VerticesHolding(rev[i], unseen)])
        st == DfsAll(net, start_vertices,
                     [visited |-> <<>>, unseen |-> unseen, seen |-> {},
                      ok |-> TRUE])
    IN IF st.ok /\ st.unseen = {} /\ st.seen = {}
       THEN [ok |-> TRUE, order |-> Reverse(st.visited)]
       ELSE [ok |-> FALSE, order |-> <<>>]

-----------------------------------------------------------------------------
(* _calc_sched_dag: indices and adjacency *)

\* dag_vertex_list with the code's indices 0..V-1.
VertexList(order) == [vidx \in 0..(Len(order) - 1) |-> order[vidx + 1]]

\* dag_vertex_dict[layer_name]
VertexOf(vlist, layer_name) ==
    CHOOSE vidx \in DOMAIN vlist : layer_name \in Range(vlist[vidx])

PrevDict(net, vlist) ==
    [vidx \in DOMAIN vlist |->
        {IF pl = None THEN dag_input_vertex ELSE VertexOf(vlist, pl) :
            pl \in UNION {PrevLayers(net, l) : l \in Range(vlist[vidx])}}
        \ {vidx}]

NextDict(net, vlist) ==
    LET prev == PrevDict(net, vlist)
    IN [vidx \in DOMAIN vlist \cup {dag_input_vertex} |->
        IF vidx = dag_input_vertex
        THEN {v \in DOMAIN vlist : dag_input_vertex \in prev[v]}
        ELSE {VertexOf(vlist, nl) :
                nl \in UNION {Range(NextLayers(net, l)) \ {None} :
                                l \in Range(vlist[vidx])}}
             \ {vidx}]

RECURSIVE SumLen(_)
SumLen(vs) == IF vs = <<>> THEN 0 ELSE Len(Head(vs)) + SumLen(Tail(vs))

\* The attributes _calc_sched_dag sets, or ok = FALSE when it raises.
CalcSchedDag(net) ==
    LET vset == CalcVertexSet(net)
        topo == TopologicalOrder(net, vset)
        vlist == VertexList(topo.order)
    IN IF SumLen(vset) = net.n /\ topo.ok
       THEN [ok |-> TRUE, vset |-> vset, vlist |-> vlist,
             prev |-> PrevDict(net, vlist), next |-> NextDict(net, vlist)]
       ELSE [ok |-> FALSE, vset |-> vset, vlist |-> <<>>,
             prev |-> <<>>, next |-> <<>>]

\* ordered_layer_list()
OrderedLayerList ==
    Flatten([i \in 1..Cardinality(DOMAIN dag_vertex_list) |->
                dag_vertex_list[i - 1]])

NumVertices == Cardinality(DOMAIN dag_vertex_list)

-----------------------------------------------------------------------------
(* _gen_vseg: the rules *)

\* ShareDeps with a slip: the previous vertices of the segment are left out.
ShareDepsDirect(vseg, frontier) ==
    \/ vseg = <<>>
    \/ dag_prev_dict[frontier] \cap Range(vseg) # {}

\* share_deps: the segment is empty, or the frontier has a previous vertex
\* in the segment or among the previous vertices of the segment (rule 1).
ShareDeps(vseg, frontier) ==
    \/ vseg = <<>>
    \/ dag_prev_dict[frontier] \cap
         (Range(vseg) \cup UNION {dag_prev_dict[i] : i \in Range(vseg)}) # {}

\* CoupledPrevs with a slip: all, not some, of the previous vertices.
CoupledPrevsAll(vseg, frontier) ==
    /\ Cardinality(dag_prev_dict[frontier]) > 1
    /\ dag_prev_dict[frontier] \subseteq Range(vseg)

\* CoupledPrevs with a slip: the input vertex is not counted.
CoupledPrevsInner(vseg, frontier) ==
    /\ Cardinality(dag_prev_dict[frontier] \ {dag_input_vertex}) > 1
    /\ dag_prev_dict[frontier] \cap Range(vseg) # {}

\* coupled_prevs: some of the multiple previous vertices of the frontier
\* are in the segment (rule 2).
CoupledPrevs(vseg, frontier) ==
    /\ Cardinality(dag_prev_dict[frontier]) > 1
    /\ dag_prev_dict[frontier] \cap Range(vseg) # {}

\* The test of rule 3 on one vertex of the segment: some but not all of its
\* next vertices are in the segment.
PartialNexts(vseg, idx) ==
    LET nexts == dag_next_dict[idx]
    IN ~(nexts \cap Range(vseg) = {} \/ nexts \subseteq Range(vseg))

\* The position in vseg of the first vertex failing rule 3, 0 when the
\* segment is valid (the for ... else over vseg).
FirstPartial(vseg) ==
    LET bad == {i \in 1..Len(vseg) : PartialNexts(vseg, vseg[i])}
    IN IF bad = {} THEN 0 ELSE Min(bad)

\* The assertion made when rule 3 fails at vertex idx.
MissingAhead(vseg, idx, frontier) ==
    Min(dag_next_dict[idx] \ Range(vseg)) > frontier

\* HaveDone with a slip: the start looked up is one too far.
HaveDoneAhead(frontier, memo) == (frontier + 2) \in memo

\* "Skip if have done": the start after the frontier is already explored.
HaveDone(frontier, memo) == (frontier + 1) \in memo

\* IsTopLevel with a slip: the memo is never reset.
IsTopLevelNever(done) == FALSE

\* Whether a call starts a top-level traversal and resets the memo.
IsTopLevel(done) == done = {}

-----------------------------------------------------------------------------
(* _gen_vseg: the generator.  A traversal is a stack of frames, one for     *)
(* each active call of _gen_vseg; a frame is at "start" (not yet run), at   *)
(* "loop" (about to run the loop body for its frontier) or at "yield"       *)
(* (suspended at yield vseg).                                               *)

NewFrame(vertex_idx, done) ==
    [vertex_idx |-> vertex_idx, done |-> done, vseg |-> <<>>,
     frontier |-> vertex_idx, pc |-> "start"]

\* The generator object made by self._gen_vseg(); no code has run yet.
\* vout, entered, marked and log record what the traversal has done.
NewVseg ==
    [state |-> "new", stack |-> <<NewFrame(0, {})>>, yielded |-> <<>>,
     vout |-> <<>>, entered |-> <<>>, marked |-> <<>>, log |-> <<>>,
     memo |-> {}]

Top(c) == c.stack[Len(c.stack)]

\* Lines 127-136: the memo is reset by a top-level call.
EnterFrame(c) ==
    LET f == Top(c)
    IN [c EXCEPT !.stack[Len(c.stack)] =
                     [f EXCEPT !.done = f.done \cup {dag_input_vertex},
                               !.pc = "loop"],
                 !.memo = IF IsTopLevel(f.done) THEN {} ELSE @,
                 !.entered = Append(@, f.vertex_idx),
                 !.log = Append(@, [op |-> "enter", idx |-> f.vertex_idx,
                                    reset |-> IsTopLevel(f.done)])]

\* Lines 193-194, and the return to the calling frame, whose loop goes on
\* with its next frontier.
ExitFrame(c) ==
    LET f == Top(c)
        n == Len(c.stack)
    IN IF f.vertex_idx \in c.memo
       THEN [c EXCEPT !.state = "error",
                      !.log = Append(@, [op |-> "remark",
                                         idx |-> f.vertex_idx])]
       ELSE LET rest == SubSeq(c.stack, 1, n - 1)
            IN [c EXCEPT
                  !.memo = @ \cup {f.vertex_idx},
                  !.marked = Append(@, f.vertex_idx),
                  !.stack = IF n = 1 THEN <<>>
                            ELSE [rest EXCEPT ![n - 1] =
                                    [@ EXCEPT !.frontier = @ + 1,
                                              !.pc = "loop"]],
                  !.state = IF n = 1 THEN "finished" ELSE @]

\* Lines 140-183: one iteration of the loop over the frontiers.
LoopStep(c) ==
    LET f == Top(c)
        frontier == f.frontier
        Tried(joined) == [op |-> "try", vseg |-> f.vseg,
                          frontier |-> frontier, joined |-> joined]
    IN IF frontier >= NumVertices THEN ExitFrame(c)
       ELSE IF ~ShareDeps(f.vseg, frontier) \/ CoupledPrevs(f.vseg, frontier)
       THEN LET c1 == [c EXCEPT !.log = Append(@, Tried(FALSE))]
            IN IF f.vseg = <<>> THEN [c1 EXCEPT !.state = "error"]
               ELSE ExitFrame(c1)
       ELSE
       LET vseg == Append(f.vseg, frontier)
           bad == FirstPartial(vseg)
           c1 == [c EXCEPT !.log = Append(@, Tried(TRUE))]
       IN IF bad # 0
          THEN IF MissingAhead(vseg, vseg[bad], frontier)
               THEN [c1 EXCEPT !.stack[Len(c.stack)] =
                                  [f EXCEPT !.vseg = vseg,
                                            !.frontier = frontier + 1],
                               !.log = Append(@, [op |-> "partial",
                                                  vseg |-> vseg])]
               ELSE [c1 EXCEPT !.state = "error"]
          ELSE [c1 EXCEPT !.stack[Len(c.stack)] =
                             [f EXCEPT !.vseg = vseg, !.pc = "yield"],
                          !.state = "suspended",
                          !.yielded = vseg,
                          !.vout = Append(@, vseg)]

\* Lines 185-191: the generator is resumed after yield vseg.
AfterYield(c) ==
    LET f == Top(c)
    IN IF HaveDone(f.frontier, c.memo)
       THEN [c EXCEPT !.stack[Len(c.stack)] =
                         [f EXCEPT !.frontier = @ + 1, !.pc = "loop"]]
       ELSE [c EXCEPT !.stack =
                         Append(@, NewFrame(f.frontier + 1,
                                            f.done \cup Range(f.vseg)))]

RECURSIVE RunVseg(_)
\* Runs the traversal until it yields, returns or raises.
RunVseg(c) ==
    IF c.state # "running" THEN c
    ELSE LET pc == Top(c).pc
         IN RunVseg(IF pc = "start" THEN EnterFrame(c)
                    ELSE IF pc = "yield" THEN AfterYield(c)
                    ELSE LoopStep(c))

\* next(g) on a traversal g, the instance's memo being memo: the traversal
\* and the memo afterwards (in the field memo).
NextOfVseg(g, memo) ==
    RunVseg([g EXCEPT !.state = "running", !.memo = memo])

Resumable(g) == g.state \in {"new", "suspended"}

NoGen == [state |-> "none"]

-----------------------------------------------------------------------------
(* gen_segment *)

\* segment.valid of the external validator: a one-layer segment is valid
\* (the code asserts it), a longer one when the resource holds its layers.
Valid(seg, cap) == SumLen(seg) = 1 \/ SumLen(seg) <= cap

\* Spatial pipelining: one stage for each vertex of the vseg.
SpatialSeg(vseg) == [i \in 1..Len(vseg) |-> dag_vertex_list[vseg[i]]]

\* Temporal pipelining: the layers of the vseg in one stage.
TemporalSeg(vseg) == <<Flatten(SpatialSeg(vseg))>>

\* Whether the set seg_cands of vseg has two elements: both options are
\* set and the two candidates differ.
TwoCands(vseg, options) ==
    /\ options.partition_interlayer
    /\ options.hw_gbuf_save_writeback
    /\ SpatialSeg(vseg) # TemporalSeg(vseg)

\* Whether the loop over the set seg_cands of vseg takes the spatial
\* candidate first.  The order of a set follows from the hashes of its
\* elements, so it is fixed for each set within a process and unrelated
\* between sets; order holds it for the sets it is known for.
SpatialFirst(vseg, order) ==
    IF vseg \in DOMAIN order THEN order[vseg] ELSE TRUE

\* seg_cands in the order the loop over the set takes them; equal
\* candidates are one element of the set.
SegCands(vseg, options, order) ==
    LET spatial == IF options.partition_interlayer
                   THEN <<SpatialSeg(vseg)>> ELSE <<>>
        temporal == IF options.hw_gbuf_save_writeback
                    THEN <<TemporalSeg(vseg)>> ELSE <<>>
    IN IF spatial = temporal THEN spatial
       ELSE IF SpatialFirst(vseg, order) THEN spatial \o temporal
       ELSE temporal \o spatial

\* The generator object made by self.gen_segment(options).  out records
\* the segments yielded so far; disturbed records that another generator
\* wrote the memo while this one was inside its _gen_vseg traversal.
NewSegment(options) ==
    [state |-> "new", options |-> options, layer |-> 1, vg |-> NoGen,
     cands |-> <<>>, yielded |-> <<>>, out |-> <<>>, disturbed |-> FALSE,
     memo |-> {}]

Yield(c, seg) ==
    [c EXCEPT !.state = "suspended", !.yielded = seg, !.out = Append(@, seg)]

\* Lines 72-77: the next layer's own segment, or on to the vsegs.
LayerStep(c, net, cap) ==
    IF c.layer <= net.n
    THEN LET seg == <<<<c.layer>>>>
         IN IF Valid(seg, cap)
            THEN Yield([c EXCEPT !.layer = @ + 1], seg)
            ELSE [c EXCEPT !.state = "error"]
    ELSE [c EXCEPT !.vg = NewVseg]

\* Lines 98-101: the next candidate of seg_cands.
CandStep(c, cap) ==
    LET seg == Head(c.cands)
        c1 == [c EXCEPT !.cands = Tail(@)]
    IN IF Valid(seg, cap) THEN Yield(c1, seg) ELSE c1

\* Lines 80-95: the next vseg of the traversal and its candidates.
VsegStep(c, order) ==
    LET g == NextOfVseg(c.vg, c.memo)
        c1 == [c EXCEPT !.vg = g, !.memo = g.memo]
    IN IF g.state = "suspended"
       THEN [c1 EXCEPT !.cands = SegCands(g.yielded, c.options, order)]
       ELSE [c1 EXCEPT !.state = g.state]

RECURSIVE RunSegment(_, _, _, _)
\* Runs the generator until it yields, returns or raises.
RunSegment(c, net, cap, order) ==
    IF c.state # "running" THEN c
    ELSE RunSegment(IF c.vg = NoGen THEN LayerStep(c, net, cap)
                    ELSE IF c.cands # <<>> THEN CandStep(c, cap)
                    ELSE VsegStep(c, order),
                    net, cap, order)

\* next(g) on a gen_segment generator g, the instance's memo being memo.
NextOfSegment(g, memo, net, cap, order) ==
    RunSegment([g EXCEPT !.state = "running", !.memo = memo], net, cap, order)

\* The vsegs whose two-element set seg_cands is iterated between the
\* generator states g and c, c being g after a next(g).
Iterated(g, c) ==
    LET before == IF g.vg = NoGen THEN 0 ELSE Len(g.vg.vout)
        after == IF c.vg = NoGen THEN 0 ELSE Len(c.vg.vout)
    IN {c.vg.vout[i] : i \in {j \in (before + 1)..after :
                                   TwoCands(c.vg.vout[j], c.options)}}

RECURSIVE Drain(_, _, _, _)
\* list(g): the segments a generator yields until it returns or raises.
Drain(g, net, cap, order) ==
    IF ~Resumable(g) THEN g
    ELSE Drain(NextOfSegment(g, g.memo, net, cap, order), net, cap, order)

OptionSet ==
    [partition_interlayer : BOOLEAN, hw_gbuf_save_writeback : BOOLEAN]

-----------------------------------------------------------------------------
(* The networks of the specifications *)

\* The previous layers a layer may be given: the network input alone, or
\* one or more of the layers of from.
PrevChoices(from) == {{None}} \cup (SUBSET from \ {{}})

RECURSIVE PrevsUpTo(_, _)
\* The prevs of layers 1..k of a network of n layers; ahead: whether a
\* layer may name layers declared after it.
PrevsUpTo(k, ahead) ==
    IF k = 0 THEN {<<>>}
    ELSE {Append(p, c) : p \in PrevsUpTo(k - 1, ahead),
                         c \in PrevChoices(IF ahead[1]
                                           THEN (1..ahead[2]) \ {k}
                                           ELSE 1..(k - 1))}

\* The networks Network.add can build: every layer names earlier layers.
Networks(max) ==
    UNION {{[n |-> n, conv |-> c, prevs |-> p] :
               c \in [1..n -> BOOLEAN], p \in PrevsUpTo(n, <<FALSE, n>>)} :
           n \in 1..max}

\* Layer graphs of any shape, cycles included.
AnyNetworks(max) ==
    UNION {{[n |-> n, conv |-> c, prevs |-> p] :
               c \in [1..n -> BOOLEAN], p \in PrevsUpTo(n, <<TRUE, n>>)} :
           n \in 1..max}

-----------------------------------------------------------------------------
(* Specification Spec: construction, then one _gen_vseg() traversal *)

InitCommon ==
    /\ status = "new"
    /\ dag_vertex_set = <<>>
    /\ dag_vertex_list = <<>>
    /\ dag_prev_dict = <<>>
    /\ dag_next_dict = <<>>
    /\ seg_vertex_done = {}
    /\ vgen = NoGen
    /\ sgen = <<>>
    /\ calls = "none"

Init ==
    /\ network \in Networks(MaxLayers)
    /\ capacity = 1
    /\ spatial_first = <<>>
    /\ InitCommon

\* InterLayerPipeline(network, ...): _calc_sched_dag, then the empty memo.
Construct ==
    /\ status = "new"
    /\ LET dag == CalcSchedDag(network)
       IN /\ status' = IF dag.ok THEN "ok" ELSE "error"
          /\ dag_vertex_set' = dag.vset
          /\ dag_vertex_list' = dag.vlist
          /\ dag_prev_dict' = dag.prev
          /\ dag_next_dict' = dag.next
    /\ seg_vertex_done' = {}
    /\ UNCHANGED <<envVars, vgen, sgen, calls>>

\* g = self._gen_vseg()
CallGenVseg ==
    /\ status = "ok"
    /\ vgen = NoGen
    /\ vgen' = NewVseg
    /\ UNCHANGED <<envVars, dagVars, seg_vertex_done, sgen, calls>>

\* next(g)
NextVseg ==
    /\ status = "ok"
    /\ vgen # NoGen
    /\ Resumable(vgen)
    /\ LET c == NextOfVseg(vgen, seg_vertex_done)
       IN /\ vgen' = c
          /\ seg_vertex_done' = c.memo
    /\ UNCHANGED <<envVars, dagVars, sgen, calls>>

Next == Construct \/ CallGenVseg \/ NextVseg

Spec == Init /\ [][Next]_vars

-----------------------------------------------------------------------------
(* Specification SpecSeq: construction, then gen_segment calls made one    *)
(* after the other; a call made before the previous generator returned     *)
(* abandons it.  calls records whether the current call found the memo     *)
(* clean (empty, or filled by a drained call) or partly filled.            *)

InitSeq ==
    /\ network \in Networks(MaxSegLayers)
    /\ capacity \in 1..MaxCapacity
    /\ spatial_first = <<>>
    /\ status = "new"
    /\ dag_vertex_set = <<>>
    /\ dag_vertex_list = <<>>
    /\ dag_prev_dict = <<>>
    /\ dag_next_dict = <<>>
    /\ seg_vertex_done = {}
    /\ vgen = NoGen
    /\ sgen = <<NoGen>>
    /\ calls = "none"

PartlyFilled(memo) == memo # {} /\ memo # 0..NumVertices

\* g = self.gen_segment(options), the first call on the instance
CallSegment ==
    /\ status = "ok"
    /\ sgen[1] = NoGen
    /\ \E options \in OptionSet : sgen' = <<NewSegment(options)>>
    /\ calls' = "clean"
    /\ UNCHANGED <<envVars, dagVars, seg_vertex_done, vgen>>

\* g = self.gen_segment(options), the previous generator being dropped
CallSegmentAgain ==
    /\ status = "ok"
    /\ sgen[1] # NoGen
    /\ \E options \in OptionSet : sgen' = <<NewSegment(options)>>
    /\ calls' = IF PartlyFilled(seg_vertex_done) THEN "partial" ELSE "clean"
    /\ UNCHANGED <<envVars, dagVars, seg_vertex_done, vgen>>

\* Whether generator h is inside its _gen_vseg traversal.
MidTraversal(h) ==
    /\ sgen[h] # NoGen
    /\ sgen[h].vg # NoGen
    /\ sgen[h].vg.state = "suspended"

\* next(g) on generator g of the instance.  Each set seg_cands the call
\* iterates for the first time in the process takes either order; a set
\* iterated before takes the order it took then.
NextSegment(g) ==
    /\ status = "ok"
    /\ sgen[g] # NoGen
    /\ Resumable(sgen[g])
    /\ LET probe == NextOfSegment(sgen[g], seg_vertex_done, network,
                                  capacity, spatial_first)
           fresh == Iterated(sgen[g], probe) \ DOMAIN spatial_first
       IN \E chosen \in [fresh -> BOOLEAN] :
             LET order == chosen @@ spatial_first
                 c == NextOfSegment(sgen[g], seg_vertex_done, network,
                                    capacity, order)
             IN /\ sgen' = [h \in DOMAIN sgen |->
                              IF h = g THEN c
                              ELSE IF MidTraversal(h)
                                      /\ c.memo # seg_vertex_done
                              THEN [sgen[h] EXCEPT !.disturbed = TRUE]
                              ELSE sgen[h]]
                /\ seg_vertex_done' = c.memo
                /\ spatial_first' = order
    /\ UNCHANGED <<network, capacity, dagVars, vgen, calls>>

NextSeq == Construct \/ CallSegment \/ CallSegmentAgain \/ NextSegment(1)

SpecSeq == InitSeq /\ [][NextSeq]_vars

-----------------------------------------------------------------------------
(* Specification SpecInterleaved: construction, then two gen_segment       *)
(* generators of the one instance, resumed in any order.                   *)

Gens == {1, 2}

InitInterleaved ==
    /\ network \in Networks(MaxSegLayers)
    /\ capacity = MaxCapacity
    /\ spatial_first = <<>>
    /\ status = "new"
    /\ dag_vertex_set = <<>>
    /\ dag_vertex_list = <<>>
    /\ dag_prev_dict = <<>>
    /\ dag_next_dict = <<>>
    /\ seg_vertex_done = {}
    /\ vgen = NoGen
    /\ sgen = <<NoGen, NoGen>>
    /\ calls = "none"

\* g = self.gen_segment(options) for generator slot g; the slots are
\* filled in their order and the calls are given the same options.
CallGen(g) ==
    /\ status = "ok"
    /\ sgen[g] = NoGen
    /\ \A h \in 1..(g - 1) : sgen[h] # NoGen
    /\ \E options \in OptionSet :
          /\ \A h \in 1..(g - 1) : sgen[h].options = options
          /\ sgen' = [sgen EXCEPT ![g] = NewSegment(options)]
    /\ UNCHANGED <<envVars, dagVars, seg_vertex_done, vgen, calls>>

NextInterleaved ==
    \/ Construct
    \/ \E g \in Gens : CallGen(g)
    \/ \E g \in Gens : NextSegment(g)

SpecInterleaved == InitInterleaved /\ [][NextInterleaved]_vars

-----------------------------------------------------------------------------
(* Specification SpecAny: construction over layer graphs of any shape *)

InitAny ==
    /\ network \in AnyNetworks(MaxAnyLayers)
    /\ capacity = 1
    /\ spatial_first = <<>>
    /\ InitCommon

NextAny == Construct

SpecAny == InitAny /\ [][NextAny]_vars

-----------------------------------------------------------------------------
(* Properties of the scheduling DAG *)

Layers == 1..network.n

Constructed == status = "ok"

\* The position of a layer in ordered_layer_list(), 0 when it is not there.
Position(l) ==
    LET at == {i \in 1..Len(OrderedLayerList) : OrderedLayerList[i] = l}
    IN IF at = {} THEN 0 ELSE Min(at)

Occurrences(l) ==
    Cardinality({i \in 1..Len(OrderedLayerList) : OrderedLayerList[i] = l})

LayerOrderValid ==
    /\ \A l \in Layers : Occurrences(l) = 1
    /\ Len(OrderedLayerList) = network.n
    /\ \A c \in Layers : \A p \in network.prevs[c] \ {None} :
           Position(p) < Position(c)

VertexOrderValid ==
    \A v \in DOMAIN dag_prev_dict :
        /\ \A p \in dag_prev_dict[v] : p < v
        /\ \A n \in dag_next_dict[v] : v < n

\* C1: for an acyclic network construction completes, ordered_layer_list()
\* holds each layer exactly once with every producer before its consumers,
\* and every next vertex has a larger index than every previous vertex.
C1_TopologicalOrder ==
    status # "new" => Constructed /\ LayerOrderValid /\ VertexOrderValid

\* The vertices made of the layers before l alone, in creation order: the
\* vertex set when the builder reaches layer l.
Before(l) ==
    LET Older(x) == x < l
        Cut(v) == SelectSeq(v, Older)
        Started(v) == v[1] < l
        kept == SelectSeq(dag_vertex_set, Started)
    IN [i \in 1..Len(kept) |-> Cut(kept[i])]

\* A vertex layer l can be merged into, as the merge rule states it.
Eligible(v, l) ==
    /\ \A i \in 1..(Len(v) - 1) : v[i] \notin network.prevs[l]
    /\ v[Len(v)] \in network.prevs[l]
    /\ Cardinality({x \in Layers : v[Len(v)] \in network.prevs[x]}) = 1

\* The vertex of dag_vertex_set holding layer l, and l's place in it.
HomeOf(l) == CHOOSE i \in 1..Len(dag_vertex_set) : l \in Range(dag_vertex_set[i])

PlaceOf(l) ==
    CHOOSE k \in 1..Len(dag_vertex_set[HomeOf(l)]) :
        dag_vertex_set[HomeOf(l)][k] = l

MergeRuleAt(l) ==
    LET before == Before(l)
        ok == {i \in 1..Len(before) : Eligible(before[i], l)}
    IN IF network.conv[l] \/ ok = {}
       THEN /\ PlaceOf(l) = 1
            /\ HomeOf(l) = Len(before) + 1
       ELSE /\ HomeOf(l) = Max(ok)
            /\ PlaceOf(l) = Len(before[Max(ok)]) + 1

\* C7: a filtered layer starts a new vertex; a mergeable layer becomes the
\* last layer of the most recently created eligible vertex, or its own
\* vertex when none is eligible; every layer is in exactly one vertex.
C7_MergeRule ==
    status # "new" =>
        /\ \A l \in Layers :
              Cardinality({i \in 1..Len(dag_vertex_set) :
                              l \in Range(dag_vertex_set[i])}) = 1
        /\ SumLen(dag_vertex_set) = network.n
        /\ \A l \in Layers : MergeRuleAt(l)
        /\ \A i \in 1..Len(dag_vertex_set) :
              \A j, k \in 1..Len(dag_vertex_set[i]) :
                  j < k => dag_vertex_set[i][j] < dag_vertex_set[i][k]

\* C7 scenario: layer 3 is mergeable, its sole previous layer 2 is the tail of vertex
\* (1, 2) and feeds layer 3 alone: the vertex becomes (1, 2, 3).
C7_Witness ==
    /\ Constructed
    /\ network.n >= 3
    /\ ~network.conv[3]
    /\ network.prevs[3] = {2}
    /\ \A x \in Layers : 2 \in network.prevs[x] => x = 3
    /\ Before(3) = <<<<1, 2>>>>
    /\ <<1, 2, 3>> \in Range(dag_vertex_set)

-----------------------------------------------------------------------------
(* Properties of the vertex segment enumerator *)

Members(vseg) == {vseg[i] : i \in 1..Len(vseg)}

Earlier(vseg, k) == {vseg[i] : i \in 1..(k - 1)}

\* Rule 1 at member k of vseg.
R1At(vseg, k) ==
    \E p \in dag_prev_dict[vseg[k]] :
        \/ p \in Earlier(vseg, k)
        \/ \E m \in Earlier(vseg, k) : p \in dag_prev_dict[m]

\* Rule 2 at member k of vseg.
R2At(vseg, k) ==
    Cardinality(dag_prev_dict[vseg[k]]) > 1 =>
        \A p \in dag_prev_dict[vseg[k]] : p \notin Members(vseg)

R1(vseg) == \A k \in 2..Len(vseg) : R1At(vseg, k)

R2(vseg) == \A k \in 1..Len(vseg) : R2At(vseg, k)

R3(vseg) ==
    \A k \in 1..Len(vseg) :
        \/ \A n \in dag_next_dict[vseg[k]] : n \in Members(vseg)
        \/ \A n \in dag_next_dict[vseg[k]] : n \notin Members(vseg)

Traversing == vgen # NoGen /\ vgen.state # "new"

\* C2: every yielded vseg satisfies rules 1, 2 and 3 with respect to the
\* computed adjacency.
C2_YieldedRules ==
    Traversing =>
        \A i \in 1..Len(vgen.vout) :
            R1(vgen.vout[i]) /\ R2(vgen.vout[i]) /\ R3(vgen.vout[i])

\* C2 case: a yielded vseg of three vertices one of which has several next vertices.
C2_Witness ==
    /\ Traversing
    /\ vgen.state = "suspended"
    /\ Len(vgen.yielded) >= 3
    /\ \E v \in Members(vgen.yielded) : Cardinality(dag_next_dict[v]) > 1

\* The run of vertex indices s, s+1, ..., e.
RunOf(s, e) == [i \in 1..(e - s + 1) |-> s + i - 1]

\* The vsegs the traversal is to yield: runs from a start s whose every
\* later member passed rules 1 and 2 against the run before it, and that
\* satisfy rule 3.
Expected ==
    {r \in UNION {{RunOf(s, e) : e \in s..(NumVertices - 1)} :
                    s \in 0..(NumVertices - 1)} :
        /\ \A k \in 2..Len(r) :
              R1At(SubSeq(r, 1, k), k) /\ R2At(SubSeq(r, 1, k), k)
        /\ R3(r)}

NoRepeat(s) == \A i, j \in 1..Len(s) : i # j => s[i] # s[j]

IsChainOfFour ==
    /\ network.n = 4
    /\ \A l \in Layers : network.conv[l]
    /\ network.prevs = <<{None}, {1}, {2}, {3}>>

TenRuns ==
    {<<0>>, <<0, 1>>, <<0, 1, 2>>, <<0, 1, 2, 3>>, <<1>>, <<1, 2>>,
     <<1, 2, 3>>, <<2>>, <<2, 3>>, <<3>>}

\* C4: one traversal yields, once each and nothing else, every vseg grown
\* from a start index by consecutive frontiers passing rules 1 and 2 and
\* satisfying rule 3; for the chain of four it yields the ten runs.
C4_ExactEnumeration ==
    Traversing =>
        /\ vgen.state # "error"
        /\ NoRepeat(vgen.vout)
        /\ Range(vgen.vout) \subseteq Expected
        /\ vgen.state = "finished" =>
              /\ Range(vgen.vout) = Expected
              /\ IsChainOfFour => Range(vgen.vout) = TenRuns

\* C4 case: the traversal of the chain of four has returned.
C4_Witness ==
    /\ Traversing
    /\ vgen.state = "finished"
    /\ IsChainOfFour
    /\ Len(vgen.vout) = 10

Tries == {vgen.log[i] : i \in {j \in 1..Len(vgen.log) : vgen.log[j].op = "try"}}

TwoPrevs(e) == Cardinality(dag_prev_dict[e.frontier]) = 2

\* Rule 1's shared-dependency test of the frontier against the vseg.
SharesWith(e) ==
    \E p \in dag_prev_dict[e.frontier] :
        \/ p \in Members(e.vseg)
        \/ \E m \in Members(e.vseg) : p \in dag_prev_dict[m]

HeldPrevs(e) == dag_prev_dict[e.frontier] \cap Members(e.vseg)

\* C5 as stated: a vertex with exactly two previous vertices joins a vseg
\* holding only one of them when rule 1's test passes.
C5_JoinsWithOnePrev ==
    Traversing =>
        \A e \in Tries :
            TwoPrevs(e) /\ Cardinality(HeldPrevs(e)) = 1 /\ SharesWith(e)
                => e.joined

\* C5 amended: a vertex with exactly two previous vertices joins a
\* non-empty vseg exactly when the vseg holds neither of them and rule 1's
\* test passes.
C5_JoinsWithNoPrev ==
    Traversing =>
        \A e \in Tries :
            TwoPrevs(e) /\ e.vseg # <<>>
                => (e.joined <=> (HeldPrevs(e) = {} /\ SharesWith(e)))

\* C5 case: a vertex with two previous vertices joined a vseg holding neither,
\* and another was kept out of a vseg holding one.
C5_Witness ==
    /\ Traversing
    /\ \E e \in Tries :
          /\ TwoPrevs(e) /\ e.vseg # <<>> /\ HeldPrevs(e) = {}
          /\ dag_input_vertex \notin dag_prev_dict[e.frontier]
          /\ e.joined
    /\ \E e \in Tries :
          TwoPrevs(e) /\ Cardinality(HeldPrevs(e)) = 1 /\ ~e.joined

Partials ==
    {vgen.log[i] : i \in {j \in 1..Len(vgen.log) : vgen.log[j].op = "partial"}}

Times(s, x) == Cardinality({i \in 1..Len(s) : s[i] = x})

\* C10: in a single traversal no check of the enumerator fails: a vseg
\* that rules 1 or 2 stop is not empty, the next vertices missing from a
\* vseg that fails rule 3 are all beyond the frontier, and each start
\* index 0..V is entered once and marked explored once.
C10_NoFatalCheck ==
    Traversing =>
        /\ vgen.state # "error"
        /\ \A e \in Tries : ~e.joined => e.vseg # <<>>
        /\ \A e \in Partials :
              \A m \in Members(e.vseg) :
                  \A n \in dag_next_dict[m] \ Members(e.vseg) :
                      n > e.vseg[Len(e.vseg)]
        /\ \A i \in 0..NumVertices :
              Times(vgen.entered, i) <= 1 /\ Times(vgen.marked, i) <= 1
        /\ vgen.state = "finished" =>
              /\ Range(vgen.entered) = 0..NumVertices
              /\ Range(vgen.marked) = 0..NumVertices
              /\ seg_vertex_done = 0..NumVertices

\* C10 case: a finished traversal in which rules 1 or 2 stopped a vseg, a vseg
\* failed rule 3, and an already explored start was skipped.
C10_Witness ==
    /\ Traversing
    /\ vgen.state = "finished"
    /\ \E e \in Tries : ~e.joined
    /\ Partials # {}
    /\ Len(vgen.vout) > NumVertices

-----------------------------------------------------------------------------
(* Properties of gen_segment *)

\* C3: within one gen_segment call no two yielded segments are the same
\* tuple of stages, the layers' own segments included.
C3_NoRepeatedSegment ==
    sgen[1] # NoGen => NoRepeat(sgen[1].out)

\* list(gen_segment(options)) on a freshly constructed instance of the
\* process.  The sets the calls so far have iterated take the order they
\* took; the yielded prefix compared covers no other set.
FreshRun(options) ==
    Drain(NewSegment(options), network, capacity, spatial_first)

\* C6: a call made after the previous call was drained or abandoned yields
\* the sequence of segments the first call on a fresh instance yields.
C6_Restartable ==
    sgen[1] # NoGen =>
        LET fresh == FreshRun(sgen[1].options)
        IN /\ sgen[1].state # "error"
           /\ IsPrefix(sgen[1].out, fresh.out)
           /\ sgen[1].state = "finished" =>
                 fresh.state = "finished" /\ sgen[1].out = fresh.out

\* C6 case: a call that found the memo partly filled by an abandoned call has
\* returned, having yielded pipelined segments.
C6_Witness ==
    /\ sgen[1] # NoGen
    /\ calls = "partial"
    /\ sgen[1].state = "finished"
    /\ Len(sgen[1].out) > network.n + 2

Started(g) == sgen[g] # NoGen /\ sgen[g].vg # NoGen

Reentered(g) ==
    \E i \in 0..NumVertices : Times(sgen[g].vg.entered, i) > 1

\* C8: a traversal yields a vseg twice, enters a start index twice or
\* fails the check that a start index is marked once only when another
\* generator wrote the memo during the traversal.
C8_CorruptedOnlyByInterleaving ==
    \A g \in DOMAIN sgen :
        (/\ Started(g)
         /\ \/ sgen[g].vg.state = "error"
            \/ ~NoRepeat(sgen[g].vg.vout)
            \/ Reentered(g))
            => sgen[g].disturbed

\* C8 case: the first traversal, partly drained when the second reset the memo,
\* has entered an explored start index again, yielded a vseg it had
\* yielded, and failed the check on marking.
C8_Witness ==
    /\ Started(1) /\ Started(2)
    /\ sgen[1].disturbed
    /\ Reentered(1)
    /\ ~NoRepeat(sgen[1].vg.vout)
    /\ sgen[1].state = "error"

-----------------------------------------------------------------------------
(* Properties of construction over layer graphs of any shape *)

RECURSIVE ReachFrom(_, _)
\* The layers reached from the layers of S along next layers.
ReachFrom(S, net) ==
    LET more == {x \in 1..net.n : net.prevs[x] \cap S # {}}
    IN IF more \subseteq S THEN S ELSE ReachFrom(S \cup more, net)

OnCycle(l, net) ==
    l \in ReachFrom({x \in 1..net.n : l \in net.prevs[x]}, net)

HasCycle(net) == \E l \in 1..net.n : OnCycle(l, net)

HasUnreached(net) ==
    ReachFrom({x \in 1..net.n : None \in net.prevs[x]}, net) # 1..net.n

\* C9: a layer graph with a cycle, or with a layer not reached from the
\* first layers, makes construction fail and no vertex order is produced.
C9_NonDagIsFatal ==
    (status # "new" /\ (HasCycle(network) \/ HasUnreached(network)))
        => status = "error"

====
